---- MODULE Spec2Model ----
(***************************************************************************)
(* A model of package httperror (src/httperror.go): the Error type, the   *)
(* constructors, the catalog of pre-defined errors, Merge, the            *)
(* <Status>With wrappers and GRPC.                                        *)
(*                                                                         *)
(* Go's error values are interface values: a dynamic type and a pointer.  *)
(* The objects pointed to live in `heap`; two interface values are the    *)
(* same error exactly when type and pointer agree.  Strings are TLA+      *)
(* strings, concatenated as the code concatenates them.                   *)
(***************************************************************************)
EXTENDS Integers, Sequences, FiniteSets, TLC

VARIABLES heap,   \* address -> object (an Error, an errorString, an rpcError) or free
          pc,     \* caller -> where the caller is
          fn,     \* caller -> the exported function the caller called
          err,    \* caller -> first argument (Merge's err, or the only error argument)
          other,  \* caller -> Merge's second argument
          arg,    \* caller -> the status, code and message arguments of a constructor
          r,      \* caller -> the local pointer r of Merge (the clone), 0 when unset
          ret,    \* caller -> the returned interface value
          seq,    \* caller -> the errors e1..ei folded so far (acc := Merge(acc, ei))
          accs    \* caller -> the value of acc before each fold step

vars == <<heap, pc, fn, err, other, arg, r, ret, seq, accs>>

---------------------------------------------------------------------------
(* Bounds *)

NumCallers == 2      \* concurrent callers of SpecConc
MaxFold == 3         \* longest folded sequence of SpecFold
MaxRPCCode == 18     \* rpc codes 0..MaxRPCCode are tried; 0..16 are grpc's known codes

---------------------------------------------------------------------------
(* net/http's status codes and reason phrases, as used by the package *)

StatusBadRequest == 400
StatusUnauthorized == 401
StatusForbidden == 403
StatusNotFound == 404
StatusMethodNotAllowed == 405
StatusRequestTimeout == 408
StatusConflict == 409
StatusGone == 410
StatusPreconditionFailed == 412
StatusInternalServerError == 500
StatusNotImplemented == 501
StatusServiceUnavailable == 503

\* http.StatusText: the reason phrase, "" for a status it does not know
StatusText(status) ==
    CASE status = StatusBadRequest -> "Bad Request"
      [] status = StatusUnauthorized -> "Unauthorized"
      [] status = StatusForbidden -> "Forbidden"
      [] status = StatusNotFound -> "Not Found"
      [] status = StatusMethodNotAllowed -> "Method Not Allowed"
      [] status = StatusRequestTimeout -> "Request Timeout"
      [] status = StatusConflict -> "Conflict"
      [] status = StatusGone -> "Gone"
      [] status = StatusPreconditionFailed -> "Precondition Failed"
      [] status = StatusInternalServerError -> "Internal Server Error"
      [] status = StatusNotImplemented -> "Not Implemented"
      [] status = StatusServiceUnavailable -> "Service Unavailable"
      [] OTHER -> ""

\* var mapHTTPStatusCode: a missing key reads as ""
mapHTTPStatusCode(status) ==
    CASE status = StatusBadRequest -> "bad_request"
      [] status = StatusUnauthorized -> "unauthorized"
      [] status = StatusForbidden -> "forbidden"
      [] status = StatusNotFound -> "not_found"
      [] status = StatusMethodNotAllowed -> "method_not_allowed"
      [] status = StatusRequestTimeout -> "request_timeout"
      [] status = StatusConflict -> "conflict"
      [] status = StatusGone -> "gone"
      [] status = StatusInternalServerError -> "internal_server_error"
      [] status = StatusNotImplemented -> "not_implemented"
      [] OTHER -> ""

---------------------------------------------------------------------------
(* Objects and interface values *)

\* type Error struct { Status; Code; Message }
ErrorObj(status, code, message) ==
    [typ |-> "Error", Status |-> status, Code |-> code, Message |-> message]

\* errors.New's object: an errorString holding the text
ErrorStringObj(text) == [typ |-> "errorString", s |-> text]

\* grpc's error object: a code and a description
RPCErrorObj(code, desc) == [typ |-> "rpcError", code |-> code, desc |-> desc]

Free == [typ |-> "free"]

\* the nil interface value
Nil == [typ |-> "nil", ptr |-> 0]

\* an interface value holding a *Error; ptr 0 is the nil pointer
PtrError(a) == [typ |-> "*Error", ptr |-> a]

\* an interface value holding errors.New's *errorString
PtrErrorString(a) == [typ |-> "*errorString", ptr |-> a]

\* an interface value holding grpc's *rpcError
PtrRPCError(a) == [typ |-> "*rpcError", ptr |-> a]

\* what a call that panics leaves instead of a return value
Panic == [typ |-> "panic", ptr |-> 0]

\* a *Error that points to an Error
IsStructured(e) == e.typ = "*Error" /\ e.ptr # 0

\* an error that is not a *Error: opaque text
IsGeneric(e) == e.typ = "*errorString"

\* fmt.Sprintf("%s: [%d] %s", err.Code, err.Status, err.Message)
Sprintf(code, status, message) ==
    code \o ": [" \o ToString(status) \o "] " \o message

\* whether e.Error() dereferences a nil pointer or is called on the nil interface
ErrorPanics(e) == e = Nil \/ (e.typ = "*Error" /\ e.ptr = 0)

\* e.Error() on heap h, for an e on which it does not panic
ErrorText(h, e) ==
    CASE e.typ = "*Error" -> Sprintf(h[e.ptr].Code, h[e.ptr].Status, h[e.ptr].Message)
      [] e.typ = "*errorString" -> h[e.ptr].s
      [] e.typ = "*rpcError" ->
            "rpc error: code = " \o ToString(h[e.ptr].code) \o " desc = " \o h[e.ptr].desc

---------------------------------------------------------------------------
(* The catalog of pre-defined errors *)

\* the ten statuses of the var block, in its order
CatalogStatuses ==
    << StatusBadRequest, StatusUnauthorized, StatusForbidden, StatusNotFound,
       StatusMethodNotAllowed, StatusRequestTimeout, StatusConflict, StatusGone,
       StatusInternalServerError, StatusNotImplemented >>

NumCatalog == Len(CatalogStatuses)

CatalogIndex(status) == CHOOSE i \in 1..NumCatalog : CatalogStatuses[i] = status

\* the address of a status's reason-phrase singleton, and of its empty-message one
PreDefinedAddr(status) == CatalogIndex(status)
EmptyAddr(status) == NumCatalog + CatalogIndex(status)

SingletonAddrs == 1..(2 * NumCatalog)

\* newPreDefinedHTTPError(status) = NewHTTPError(status, mapHTTPStatusCode[status])
newPreDefinedHTTPError(status) ==
    ErrorObj(status, mapHTTPStatusCode(status), StatusText(status))

\* newPreDefinedEmptyHTTPError(status) = NewError(status, mapHTTPStatusCode[status], "")
newPreDefinedEmptyHTTPError(status) ==
    ErrorObj(status, mapHTTPStatusCode(status), "")

\* the object each singleton address holds after package initialisation
InitialSingleton(a) ==
    IF a <= NumCatalog
    THEN newPreDefinedHTTPError(CatalogStatuses[a])
    ELSE newPreDefinedEmptyHTTPError(CatalogStatuses[a - NumCatalog])

BadRequest == PtrError(PreDefinedAddr(StatusBadRequest))
Conflict == PtrError(PreDefinedAddr(StatusConflict))
InternalServerError == PtrError(PreDefinedAddr(StatusInternalServerError))
emptyBadRequest == PtrError(EmptyAddr(StatusBadRequest))
emptyConflict == PtrError(EmptyAddr(StatusConflict))

---------------------------------------------------------------------------
(* Memory: each caller allocates in a region of its own; what a caller    *)
(* allocated is garbage once it starts over.                              *)

CellsPerCaller == 2 * MaxFold + 1

AllCallers == 1..NumCallers

Region(p) == { 2 * NumCatalog + (p - 1) * CellsPerCaller + k : k \in 1..CellsPerCaller }

Addrs == 1..(2 * NumCatalog + NumCallers * CellsPerCaller)

\* a fresh address: the lowest free cell of the caller's region
Alloc(h, p) ==
    CHOOSE a \in Region(p) :
        /\ h[a] = Free
        /\ \A b \in Region(p) : h[b] = Free => a <= b

\* the heap with object obj stored at address a
Store(h, a, obj) == [h EXCEPT ![a] = obj]

---------------------------------------------------------------------------
(* What callers pass in.  A choice describes an argument; Val is the      *)
(* interface value the callee receives and Put the heap once the caller   *)
(* has built it (errors.New, or an error coming back from grpc).          *)

ChNil == [kind |-> "nil", text |-> "", addr |-> 0, code |-> 0]
ChTypedNil == [kind |-> "typednil", text |-> "", addr |-> 0, code |-> 0]
ChGeneric(text) == [kind |-> "generic", text |-> text, addr |-> 0, code |-> 0]
ChShared(a) == [kind |-> "shared", text |-> "", addr |-> a, code |-> 0]
ChRPC(code, desc) == [kind |-> "rpc", text |-> desc, addr |-> 0, code |-> code]

Put(h, p, c) ==
    CASE c.kind = "generic" -> Store(h, Alloc(h, p), ErrorStringObj(c.text))
      [] c.kind = "rpc" -> Store(h, Alloc(h, p), RPCErrorObj(c.code, c.text))
      [] OTHER -> h

Val(h, p, c) ==
    CASE c.kind = "nil" -> Nil
      [] c.kind = "typednil" -> PtrError(0)
      [] c.kind = "generic" -> PtrErrorString(Alloc(h, p))
      [] c.kind = "shared" -> PtrError(c.addr)
      [] c.kind = "rpc" -> PtrRPCError(Alloc(h, p))

\* the texts and descriptions callers use
Texts == {"", "a", "b", "invalid payload"}

\* arguments of the single caller of Spec: every singleton, every text
ErrChoices ==
    {ChNil, ChTypedNil} \cup {ChGeneric(t) : t \in Texts}
        \cup {ChShared(a) : a \in SingletonAddrs}

RPCChoices == {ChRPC(c, d) : c \in 0..MaxRPCCode, d \in {"", "a"}}

\* statuses, codes and messages handed to the constructors
ArgStatuses == {0, StatusBadRequest, StatusConflict}
ArgCodes == {"", "bad_request"}
NoArg == [status |-> 0, code |-> "", message |-> ""]

---------------------------------------------------------------------------
(* Initial state: the package's var block has run, no caller has called *)

Idle(callers) ==
    /\ pc = [p \in callers |-> "idle"]
    /\ fn = [p \in callers |-> ""]
    /\ err = [p \in callers |-> Nil]
    /\ other = [p \in callers |-> Nil]
    /\ arg = [p \in callers |-> NoArg]
    /\ r = [p \in callers |-> 0]
    /\ ret = [p \in callers |-> Nil]
    /\ seq = [p \in callers |-> << >>]
    /\ accs = [p \in callers |-> << >>]

InitHeap == [a \in Addrs |-> IF a \in SingletonAddrs THEN InitialSingleton(a) ELSE Free]

\* the one caller of Spec and SpecFold
OneCaller == {1}

Init == heap = InitHeap /\ Idle(OneCaller)

---------------------------------------------------------------------------
(* Control *)

\* an unrecovered panic ends the program
Crashed == \E p \in DOMAIN pc : pc[p] = "panic"

\* caller p is at location l of a program that still runs
At(p, l) == ~Crashed /\ pc[p] = l

---------------------------------------------------------------------------
(* Merge *)

\* Clone with a pointer receiver that hands back the receiver: no copy is made
CloneAddrShared(h, p, a) == a

\* func (err Error) Clone() *Error: where the copy the returned pointer refers to lives
CloneAddr(h, p, a) == Alloc(h, p)

\* the heap after Clone of the Error at a
Clone(h, p, a) == Store(h, CloneAddr(h, p, a), h[a])

\* the separator appended whatever the message, as r.Message += "; " + ... does
AppendSeparatorAlways(message) == message \o "; "

\* if len(r.Message) > 0 { r.Message += "; " }
AppendSeparator(message) == IF Len(message) > 0 THEN message \o "; " ELSE message

\* the nil checks answering with other in both cases
MergeNilOther(e, o) == o

\* if other == nil { return err }; if err == nil { return other }
MergeNil(e, o) == IF o = Nil THEN e ELSE o

\* the type switch taken in the other order: other is cloned whenever it is a *Error
MergeBaseSecondary(e, o) == IF o.typ = "*Error" THEN o ELSE e

\* which argument Merge clones: err if it is a *Error, else other
MergeBase(e, o) == IF e.typ = "*Error" THEN e ELSE o

\* the clone's own source appended instead of the other argument
MergeTailBase(e, o) == IF e.typ = "*Error" THEN e ELSE o

\* the argument whose Error() text Merge appends to the clone
MergeTail(e, o) == IF e.typ = "*Error" THEN o ELSE e

\* two generic errors joined under the separator rule of the structured cases
JoinTextConditional(h, e, o) ==
    (IF Len(ErrorText(h, e)) > 0 THEN ErrorText(h, e) \o "; " ELSE "") \o ErrorText(h, o)

\* errors.New(err.Error() + "; " + other.Error())
JoinText(h, e, o) == ErrorText(h, e) \o "; " \o ErrorText(h, o)

\* a caller calls Merge(err, other)
CallMerge(p, a, b) ==
    /\ At(p, "idle")
    /\ LET h1 == Put(heap, p, a) IN
         /\ heap' = Put(h1, p, b)
         /\ err' = [err EXCEPT ![p] = Val(heap, p, a)]
         /\ other' = [other EXCEPT ![p] = Val(h1, p, b)]
    /\ fn' = [fn EXCEPT ![p] = "Merge"]
    /\ pc' = [pc EXCEPT ![p] = "Merge"]
    /\ UNCHANGED <<arg, r, ret, seq, accs>>

\* Merge's nil checks, type switch and Clone, or the errors.New of two generic errors
MergeEntry(p) ==
    /\ At(p, "Merge")
    /\ IF other[p] = Nil \/ err[p] = Nil THEN
           /\ ret' = [ret EXCEPT ![p] = MergeNil(err[p], other[p])]
           /\ pc' = [pc EXCEPT ![p] = "done"]
           /\ UNCHANGED <<heap, r>>
       ELSE IF err[p].typ = "*Error" \/ other[p].typ = "*Error" THEN
           LET e == MergeBase(err[p], other[p]) IN
             IF e.ptr = 0 THEN
                 /\ ret' = [ret EXCEPT ![p] = Panic]
                 /\ pc' = [pc EXCEPT ![p] = "panic"]
                 /\ UNCHANGED <<heap, r>>
             ELSE
                 /\ heap' = Clone(heap, p, e.ptr)
                 /\ r' = [r EXCEPT ![p] = CloneAddr(heap, p, e.ptr)]
                 /\ pc' = [pc EXCEPT ![p] = "sep"]
                 /\ UNCHANGED ret
       ELSE
           /\ heap' = Store(heap, Alloc(heap, p),
                            ErrorStringObj(JoinText(heap, err[p], other[p])))
           /\ ret' = [ret EXCEPT ![p] = PtrErrorString(Alloc(heap, p))]
           /\ pc' = [pc EXCEPT ![p] = "done"]
           /\ UNCHANGED r
    /\ UNCHANGED <<fn, err, other, arg, seq, accs>>

\* the separator: r.Message += "; " when r.Message is not empty
MergeSep(p) ==
    /\ At(p, "sep")
    /\ heap' = [heap EXCEPT ![r[p]].Message = AppendSeparator(@)]
    /\ pc' = [pc EXCEPT ![p] = "cat"]
    /\ UNCHANGED <<fn, err, other, arg, r, ret, seq, accs>>

\* r.Message += tail.Error(); return r
MergeCat(p) ==
    /\ At(p, "cat")
    /\ LET t == MergeTail(err[p], other[p]) IN
         IF ErrorPanics(t) THEN
             /\ ret' = [ret EXCEPT ![p] = Panic]
             /\ pc' = [pc EXCEPT ![p] = "panic"]
             /\ UNCHANGED heap
         ELSE
             /\ heap' = [heap EXCEPT ![r[p]].Message = @ \o ErrorText(heap, t)]
             /\ ret' = [ret EXCEPT ![p] = PtrError(r[p])]
             /\ pc' = [pc EXCEPT ![p] = "done"]
    /\ UNCHANGED <<fn, err, other, arg, r, seq, accs>>

---------------------------------------------------------------------------
(* The <Status>With wrappers *)

\* the statuses that have a wrapper: BadRequestWith .. InternalServerErrorWith
WithStatuses ==
    { StatusBadRequest, StatusUnauthorized, StatusForbidden, StatusNotFound,
      StatusMethodNotAllowed, StatusRequestTimeout, StatusConflict, StatusGone,
      StatusInternalServerError }

\* the first argument a wrapper hands to Merge: the empty-message singleton
WithBase(status) == PtrError(EmptyAddr(status))

\* a caller calls <Status>With(err): return Merge(empty<Status>, err)
CallWith(p, status, c) ==
    /\ At(p, "idle")
    /\ status \in WithStatuses
    /\ heap' = Put(heap, p, c)
    /\ err' = [err EXCEPT ![p] = WithBase(status)]
    /\ other' = [other EXCEPT ![p] = Val(heap, p, c)]
    /\ arg' = [arg EXCEPT ![p].status = status]
    /\ fn' = [fn EXCEPT ![p] = "With"]
    /\ pc' = [pc EXCEPT ![p] = "Merge"]
    /\ UNCHANGED <<r, ret, seq, accs>>

---------------------------------------------------------------------------
(* Constructors *)

\* a caller calls NewError(status, code, message)
CallNewError(p, status, code, message) ==
    /\ At(p, "idle")
    /\ heap' = Store(heap, Alloc(heap, p), ErrorObj(status, code, message))
    /\ ret' = [ret EXCEPT ![p] = PtrError(Alloc(heap, p))]
    /\ arg' = [arg EXCEPT ![p] = [status |-> status, code |-> code, message |-> message]]
    /\ fn' = [fn EXCEPT ![p] = "NewError"]
    /\ pc' = [pc EXCEPT ![p] = "done"]
    /\ UNCHANGED <<err, other, r, seq, accs>>

\* a caller calls NewHTTPError(status, code)
CallNewHTTPError(p, status, code) ==
    /\ At(p, "idle")
    /\ heap' = Store(heap, Alloc(heap, p), ErrorObj(status, code, StatusText(status)))
    /\ ret' = [ret EXCEPT ![p] = PtrError(Alloc(heap, p))]
    /\ arg' = [arg EXCEPT ![p] = [status |-> status, code |-> code, message |-> ""]]
    /\ fn' = [fn EXCEPT ![p] = "NewHTTPError"]
    /\ pc' = [pc EXCEPT ![p] = "done"]
    /\ UNCHANGED <<err, other, r, seq, accs>>

\* the functions New, NewWithStatus and NewWithCode return
Creators == {"New", "NewWithStatus", "NewWithCode"}

\* a caller calls New(status, code)(err), NewWithStatus(status)(code, err) or
\* NewWithCode(code)(status, err): each returns &Error{status, code, err.Error()}
CallCreator(p, f, status, code, c) ==
    /\ At(p, "idle")
    /\ LET e == Val(heap, p, c)
           h == Put(heap, p, c)
       IN  /\ err' = [err EXCEPT ![p] = e]
           /\ IF ErrorPanics(e) THEN
                  /\ heap' = h
                  /\ ret' = [ret EXCEPT ![p] = Panic]
                  /\ pc' = [pc EXCEPT ![p] = "panic"]
              ELSE
                  /\ heap' = Store(h, Alloc(h, p), ErrorObj(status, code, ErrorText(h, e)))
                  /\ ret' = [ret EXCEPT ![p] = PtrError(Alloc(h, p))]
                  /\ pc' = [pc EXCEPT ![p] = "done"]
    /\ arg' = [arg EXCEPT ![p] = [status |-> status, code |-> code, message |-> ""]]
    /\ fn' = [fn EXCEPT ![p] = f]
    /\ UNCHANGED <<other, r, seq, accs>>

---------------------------------------------------------------------------
(* A caller that copies an Error and writes to the copy *)

\* c := e.Clone(), for e pointing to an Error
CallClone(p, a) ==
    /\ At(p, "idle")
    /\ heap' = Clone(heap, p, a)
    /\ r' = [r EXCEPT ![p] = CloneAddr(heap, p, a)]
    /\ err' = [err EXCEPT ![p] = PtrError(a)]
    /\ fn' = [fn EXCEPT ![p] = "Clone"]
    /\ pc' = [pc EXCEPT ![p] = "set"]
    /\ UNCHANGED <<other, arg, ret, seq, accs>>

\* c.Message = message
SetMessage(p, message) ==
    /\ At(p, "set")
    /\ heap' = [heap EXCEPT ![r[p]].Message = message]
    /\ arg' = [arg EXCEPT ![p].message = message]
    /\ ret' = [ret EXCEPT ![p] = PtrError(r[p])]
    /\ pc' = [pc EXCEPT ![p] = "done"]
    /\ UNCHANGED <<fn, err, other, r, seq, accs>>

---------------------------------------------------------------------------
(* GRPC *)

codes_OK == 0
codes_Canceled == 1
codes_Unknown == 2
codes_InvalidArgument == 3
codes_DeadlineExceeded == 4
codes_NotFound == 5
codes_AlreadyExists == 6
codes_PermissionDenied == 7
codes_ResourceExhausted == 8
codes_FailedPrecondition == 9
codes_Aborted == 10
codes_OutOfRange == 11
codes_Unimplemented == 12
codes_Internal == 13
codes_Unavailable == 14
codes_DataLoss == 15
codes_Unauthenticated == 16

\* grpc.Code(err): the code of an rpc error, Unknown for any other error
grpcCode(h, e) == IF e.typ = "*rpcError" THEN h[e.ptr].code ELSE codes_Unknown

\* whether grpc.ErrorDesc(err) panics: it calls err.Error() on what is no rpc error
grpcErrorDescPanics(e) == e.typ # "*rpcError" /\ ErrorPanics(e)

\* grpc.ErrorDesc(err): the description of an rpc error, err.Error() for any other
grpcErrorDesc(h, e) == IF e.typ = "*rpcError" THEN h[e.ptr].desc ELSE ErrorText(h, e)

Pair(status, code) == [status |-> status, code |-> code]

\* the cases of GRPC's switch that build an Error
GRPCCases ==
    [c \in { codes_Canceled, codes_Unknown, codes_InvalidArgument,
             codes_DeadlineExceeded, codes_NotFound, codes_AlreadyExists,
             codes_PermissionDenied, codes_Unauthenticated, codes_ResourceExhausted,
             codes_FailedPrecondition, codes_Aborted, codes_OutOfRange,
             codes_Unimplemented, codes_Internal, codes_Unavailable, codes_DataLoss } |->
        CASE c = codes_Canceled -> Pair(StatusRequestTimeout, "canceled")
          [] c = codes_Unknown -> Pair(StatusInternalServerError, "unknown")
          [] c = codes_InvalidArgument -> Pair(StatusBadRequest, "invalid_argument")
          [] c = codes_DeadlineExceeded -> Pair(StatusRequestTimeout, "deadline_exceeded")
          [] c = codes_NotFound -> Pair(StatusNotFound, "not_found")
          [] c = codes_AlreadyExists -> Pair(StatusConflict, "already_exists")
          [] c = codes_PermissionDenied -> Pair(StatusForbidden, "permission_denied")
          [] c = codes_Unauthenticated -> Pair(StatusUnauthorized, "unauthenticated")
          [] c = codes_ResourceExhausted -> Pair(StatusForbidden, "resource_exhausted")
          [] c = codes_FailedPrecondition ->
                Pair(StatusPreconditionFailed, "failed_precondition")
          [] c = codes_Aborted -> Pair(StatusConflict, "aborted")
          [] c = codes_OutOfRange -> Pair(StatusBadRequest, "out_of_range")
          [] c = codes_Unimplemented -> Pair(StatusNotImplemented, "unimplemented")
          [] c = codes_Internal -> Pair(StatusInternalServerError, "internal")
          [] c = codes_Unavailable -> Pair(StatusServiceUnavailable, "service_unavailable")
          [] c = codes_DataLoss -> Pair(StatusInternalServerError, "data_loss")]

\* the message looked up from the reason phrases instead of copied from desc
GRPCErrorReasonPhrase(code, desc) ==
    ErrorObj(GRPCCases[code].status, GRPCCases[code].code, StatusText(GRPCCases[code].status))

\* the Error GRPC builds for a code its switch names: NewError(status, code, desc)
GRPCError(code, desc) == ErrorObj(GRPCCases[code].status, GRPCCases[code].code, desc)

\* a caller calls GRPC(err)
CallGRPC(p, c) ==
    /\ At(p, "idle")
    /\ heap' = Put(heap, p, c)
    /\ err' = [err EXCEPT ![p] = Val(heap, p, c)]
    /\ fn' = [fn EXCEPT ![p] = "GRPC"]
    /\ pc' = [pc EXCEPT ![p] = "GRPC"]
    /\ UNCHANGED <<other, arg, r, ret, seq, accs>>

\* the body of GRPC
GRPC(p) ==
    /\ At(p, "GRPC")
    /\ IF err[p] = Nil THEN
           /\ ret' = [ret EXCEPT ![p] = Nil]
           /\ pc' = [pc EXCEPT ![p] = "done"]
           /\ UNCHANGED heap
       ELSE IF grpcErrorDescPanics(err[p]) THEN
           /\ ret' = [ret EXCEPT ![p] = Panic]
           /\ pc' = [pc EXCEPT ![p] = "panic"]
           /\ UNCHANGED heap
       ELSE
           LET desc == grpcErrorDesc(heap, err[p])
               code == grpcCode(heap, err[p])
           IN  /\ pc' = [pc EXCEPT ![p] = "done"]
               /\ IF code = codes_OK THEN
                      /\ ret' = [ret EXCEPT ![p] = Nil]
                      /\ UNCHANGED heap
                  ELSE IF code \in DOMAIN GRPCCases THEN
                      /\ heap' = Store(heap, Alloc(heap, p), GRPCError(code, desc))
                      /\ ret' = [ret EXCEPT ![p] = PtrError(Alloc(heap, p))]
                  ELSE
                      /\ ret' = [ret EXCEPT ![p] = err[p]]
                      /\ UNCHANGED heap
    /\ UNCHANGED <<fn, err, other, arg, r, seq, accs>>

---------------------------------------------------------------------------
(* A caller that folds a sequence of errors: acc := Merge(acc, e) *)

\* the next step of the fold: Merge(acc, e) for the next error e, acc nil at first
FoldStep(p, c) ==
    /\ \/ At(p, "idle") /\ seq[p] = << >>
       \/ At(p, "done") /\ fn[p] = "Fold"
    /\ Len(seq[p]) < MaxFold
    /\ c.kind \in {"generic", "shared"}
    /\ heap' = Put(heap, p, c)
    /\ err' = [err EXCEPT ![p] = ret[p]]
    /\ other' = [other EXCEPT ![p] = Val(heap, p, c)]
    /\ seq' = [seq EXCEPT ![p] = Append(@, Val(heap, p, c))]
    /\ accs' = [accs EXCEPT ![p] = Append(@, ret[p])]
    /\ r' = [r EXCEPT ![p] = 0]
    /\ ret' = [ret EXCEPT ![p] = Nil]
    /\ fn' = [fn EXCEPT ![p] = "Fold"]
    /\ pc' = [pc EXCEPT ![p] = "Merge"]
    /\ UNCHANGED arg

---------------------------------------------------------------------------
(* Starting over *)

\* the caller drops the result and what it built, and is free to call again
Return(p) ==
    /\ At(p, "done")
    /\ heap' = [a \in Addrs |-> IF a \in Region(p) THEN Free ELSE heap[a]]
    /\ pc' = [pc EXCEPT ![p] = "idle"]
    /\ fn' = [fn EXCEPT ![p] = ""]
    /\ err' = [err EXCEPT ![p] = Nil]
    /\ other' = [other EXCEPT ![p] = Nil]
    /\ arg' = [arg EXCEPT ![p] = NoArg]
    /\ r' = [r EXCEPT ![p] = 0]
    /\ ret' = [ret EXCEPT ![p] = Nil]
    /\ seq' = [seq EXCEPT ![p] = << >>]
    /\ accs' = [accs EXCEPT ![p] = << >>]

---------------------------------------------------------------------------
(* Specifications *)

\* what the single caller of Spec passes to GRPC
GRPCChoices ==
    RPCChoices \cup {ChNil, ChTypedNil, ChGeneric("a"),
                      ChShared(PreDefinedAddr(StatusBadRequest))}

\* one caller, every operation, every singleton
Next ==
    \E p \in OneCaller :
        \/ \E a, b \in ErrChoices : CallMerge(p, a, b)
        \/ \E s \in WithStatuses \cup {StatusNotImplemented}, c \in ErrChoices :
              CallWith(p, s, c)
        \/ \E s \in ArgStatuses, c \in ArgCodes, m \in Texts : CallNewError(p, s, c, m)
        \/ \E s \in ArgStatuses, c \in ArgCodes : CallNewHTTPError(p, s, c)
        \/ \E f \in Creators, s \in ArgStatuses, c \in ArgCodes, e \in ErrChoices :
              CallCreator(p, f, s, c, e)
        \/ \E a \in SingletonAddrs : CallClone(p, a)
        \/ \E m \in Texts : SetMessage(p, m)
        \/ \E c \in GRPCChoices : CallGRPC(p, c)
        \/ GRPC(p)
        \/ MergeEntry(p)
        \/ MergeSep(p)
        \/ MergeCat(p)
        \/ Return(p)

Spec == Init /\ [][Next]_vars

\* the arguments of the concurrent callers: all of them meet on the BadRequest
\* singleton and on the empty-message InternalServerError singleton
ConcChoices == {ChNil, ChGeneric("a"), ChShared(PreDefinedAddr(StatusBadRequest))}
ConcStatuses == {StatusInternalServerError}
ConcRPC == {ChRPC(codes_NotFound, "a"), ChRPC(codes_Unauthenticated + 1, "a")}
ConcAddrs == {PreDefinedAddr(StatusBadRequest), EmptyAddr(StatusInternalServerError)}

InitConc == heap = InitHeap /\ Idle(AllCallers)

\* NumCallers callers whose steps interleave
NextConc ==
    \E p \in AllCallers :
        \/ \E a, b \in ConcChoices : CallMerge(p, a, b)
        \/ \E s \in ConcStatuses, c \in ConcChoices : CallWith(p, s, c)
        \/ \E a \in ConcAddrs : CallClone(p, a)
        \/ SetMessage(p, "a")
        \/ \E c \in ConcRPC : CallGRPC(p, c)
        \/ GRPC(p)
        \/ MergeEntry(p)
        \/ MergeSep(p)
        \/ MergeCat(p)
        \/ Return(p)

SpecConc == InitConc /\ [][NextConc]_vars

\* the errors a fold draws from
FoldChoices ==
    {ChGeneric(t) : t \in {"", "a"}}
        \cup {ChShared(a) : a \in {PreDefinedAddr(StatusBadRequest), EmptyAddr(StatusBadRequest),
                                   PreDefinedAddr(StatusConflict), EmptyAddr(StatusConflict),
                                   PreDefinedAddr(StatusInternalServerError)}}

\* one caller folding sequences of at most MaxFold errors
NextFold ==
    \E p \in OneCaller :
        \/ \E c \in FoldChoices : FoldStep(p, c)
        \/ MergeEntry(p)
        \/ MergeSep(p)
        \/ MergeCat(p)
        \/ Return(p)

SpecFold == Init /\ [][NextFold]_vars

---------------------------------------------------------------------------
(* A caller that writes to the error Merge or a wrapper returned *)

\* the caller asserts the returned error to *Error and sets its Message:
\* ret.(*Error).Message = message
SetResultMessage(p, message) ==
    /\ At(p, "done")
    /\ fn[p] \in {"Merge", "With"}
    /\ IsStructured(ret[p])
    /\ heap[ret[p].ptr].Message # message
    /\ heap' = [heap EXCEPT ![ret[p].ptr].Message = message]
    /\ arg' = [arg EXCEPT ![p].message = message]
    /\ UNCHANGED <<pc, fn, err, other, r, ret, seq, accs>>

\* the arguments of a caller that writes to results
MutChoices ==
    {ChNil, ChGeneric("a"), ChShared(PreDefinedAddr(StatusBadRequest)),
     ChShared(EmptyAddr(StatusBadRequest))}

\* one caller that calls Merge and BadRequestWith, may write "b" to the Message of
\* what it got, and calls again
NextMut ==
    \E p \in OneCaller :
        \/ \E a, b \in MutChoices : CallMerge(p, a, b)
        \/ \E c \in MutChoices : CallWith(p, StatusBadRequest, c)
        \/ MergeEntry(p)
        \/ MergeSep(p)
        \/ MergeCat(p)
        \/ SetResultMessage(p, "b")
        \/ Return(p)

SpecMut == Init /\ [][NextMut]_vars

---------------------------------------------------------------------------
(* Properties *)

\* a call of f by p has returned
Returned(p, f) == pc[p] = "done" /\ fn[p] = f

\* e is an error with a text: a structured or a generic error
HasText(e) == IsStructured(e) \/ IsGeneric(e)

\* C1: nil is the identity of Merge on both sides: when either argument is nil,
\* Merge returns the other argument itself (nil when both are nil), the very same
\* interface value, and the step allocates nothing and changes no object.
C1_MergeNilIdentity ==
    [][\A p \in OneCaller :
          (pc[p] = "Merge" /\ pc'[p] # "Merge" /\ (err[p] = Nil \/ other[p] = Nil)) =>
              /\ pc'[p] = "done"
              /\ other[p] = Nil => ret'[p] = err[p]
              /\ err[p] = Nil => ret'[p] = other[p]
              /\ heap' = heap]_vars

\* C1 witness: Merge(nil, errors.New("")) has returned its second argument
C1_Witness ==
    \E p \in OneCaller :
        /\ Returned(p, "Merge")
        /\ err[p] = Nil
        /\ IsGeneric(other[p]) /\ heap[other[p].ptr].s = ""
        /\ ret[p] = other[p]

\* C2: when primary is a StructuredError and secondary a structured or generic
\* error, Merge returns a StructuredError with primary's status and code whose
\* message is primary.message + "; " + Describe(secondary) if primary.message is
\* non-empty and exactly Describe(secondary) if it is empty;
\* Merge(emptyBadRequest, generic("invalid payload")) describes as
\* "bad_request: [400] invalid payload".
C2_MergeStructuredPrimary ==
    \A p \in OneCaller :
        (Returned(p, "Merge") /\ IsStructured(err[p]) /\ HasText(other[p])) =>
            LET base == heap[err[p].ptr]
                res == heap[ret[p].ptr]
                d == ErrorText(heap, other[p])
            IN  /\ IsStructured(ret[p])
                /\ res.Status = base.Status
                /\ res.Code = base.Code
                /\ base.Message # "" => res.Message = base.Message \o "; " \o d
                /\ base.Message = "" => res.Message = d
                /\ (err[p] = emptyBadRequest /\ d = "invalid payload") =>
                       ErrorText(heap, ret[p]) = "bad_request: [400] invalid payload"

\* C2 witness: Merge(emptyBadRequest, errors.New("invalid payload")) has returned
C2_Witness ==
    \E p \in OneCaller :
        /\ Returned(p, "Merge")
        /\ err[p] = emptyBadRequest
        /\ IsGeneric(other[p]) /\ heap[other[p].ptr].s = "invalid payload"
        /\ ErrorText(heap, ret[p]) = "bad_request: [400] invalid payload"

\* C3: when primary is a generic error and secondary a StructuredError, Merge
\* returns a StructuredError with secondary's status and code whose message is
\* secondary.message, then "; " only if secondary.message is non-empty, then
\* primary's text; Merge(generic("a"), InternalServerError) describes as
\* Describe(InternalServerError) + "; a".
C3_MergeStructuredSecondary ==
    \A p \in OneCaller :
        (Returned(p, "Merge") /\ IsGeneric(err[p]) /\ IsStructured(other[p])) =>
            LET base == heap[other[p].ptr]
                res == heap[ret[p].ptr]
                t == heap[err[p].ptr].s
            IN  /\ IsStructured(ret[p])
                /\ res.Status = base.Status
                /\ res.Code = base.Code
                /\ base.Message # "" => res.Message = base.Message \o "; " \o t
                /\ base.Message = "" => res.Message = t
                /\ (other[p] = InternalServerError /\ t = "a") =>
                       /\ ErrorText(heap, ret[p]) = ErrorText(heap, InternalServerError) \o "; a"
                       /\ ErrorText(heap, ret[p])
                              = "internal_server_error: [500] Internal Server Error; a"

\* C3 witness: Merge(errors.New("a"), InternalServerError) has returned a 500
C3_Witness ==
    \E p \in OneCaller :
        /\ Returned(p, "Merge")
        /\ IsGeneric(err[p]) /\ heap[err[p].ptr].s = "a"
        /\ other[p] = InternalServerError
        /\ IsStructured(ret[p]) /\ heap[ret[p].ptr].Status = 500

\* C4: when both arguments are generic errors, Merge returns a new generic error,
\* not a StructuredError, whose text is primary's text + "; " + secondary's text,
\* the separator present even when a text is empty: "a", "b" give "a; b" and
\* "", "" give "; ".
C4_MergeGenerics ==
    \A p \in OneCaller :
        (Returned(p, "Merge") /\ IsGeneric(err[p]) /\ IsGeneric(other[p])) =>
            LET a == heap[err[p].ptr].s
                b == heap[other[p].ptr].s
            IN  /\ IsGeneric(ret[p])
                /\ ret[p].ptr \notin {err[p].ptr, other[p].ptr}
                /\ heap[ret[p].ptr].s = a \o "; " \o b
                /\ (a = "a" /\ b = "b") => heap[ret[p].ptr].s = "a; b"
                /\ (a = "" /\ b = "") => heap[ret[p].ptr].s = "; "

\* C4 witness: Merge(errors.New(""), errors.New("")) has returned "; "
C4_Witness ==
    \E p \in OneCaller :
        /\ Returned(p, "Merge")
        /\ IsGeneric(err[p]) /\ heap[err[p].ptr].s = ""
        /\ IsGeneric(other[p]) /\ heap[other[p].ptr].s = ""
        /\ IsGeneric(ret[p]) /\ heap[ret[p].ptr].s = "; "

\* C5: each of the ten well-known statuses has a <Status>With(err) wrapper, and for
\* every non-nil err its result is a StructuredError with that status and its
\* catalog code whose message is exactly Describe(err): no reason phrase, no
\* leading "; ".
C5_TenWrappers ==
    \A p \in OneCaller :
        /\ \A i \in 1..NumCatalog :
               At(p, "idle") =>
                   ENABLED (\E c \in ErrChoices : CallWith(p, CatalogStatuses[i], c))
        /\ (Returned(p, "With") /\ HasText(other[p])) =>
               /\ IsStructured(ret[p])
               /\ heap[ret[p].ptr].Status = arg[p].status
               /\ heap[ret[p].ptr].Code = mapHTTPStatusCode(arg[p].status)
               /\ heap[ret[p].ptr].Message = ErrorText(heap, other[p])

\* C6: in every state any interleaving of Merge, <Status>With, GRPC and
\* 'Clone a singleton, then set the clone's Message' steps of concurrent callers
\* reaches, each of the twenty singletons has the status, code and message it was
\* initialised with, so its Describe() output is the initial one.
C6_SingletonsNeverChange ==
    \A a \in SingletonAddrs :
        /\ heap[a] = InitialSingleton(a)
        /\ ErrorText(heap, PtrError(a)) = ErrorText(InitHeap, PtrError(a))

\* C6 witness: one caller has set the Message of its clone of BadRequest while
\* another is inside a Merge that cloned the same singleton
C6_Witness ==
    \E p, q \in AllCallers :
        /\ p # q
        /\ Returned(p, "Clone") /\ err[p] = BadRequest
        /\ heap[ret[p].ptr].Message = "a"
        /\ pc[q] = "cat" /\ fn[q] = "Merge" /\ err[q] = BadRequest
        /\ heap[r[q]].Message = "Bad Request; "

\* C7: GRPC equals the documented table: nil maps to nil; the OK code maps to nil;
\* each of the sixteen other known codes maps to a new StructuredError with its
\* documented status and code and the input's description as message; any other
\* code returns the original error itself, unchanged.
C7_GRPCTable ==
    LET Documented ==
            << Pair(408, "canceled"), Pair(500, "unknown"), Pair(400, "invalid_argument"),
               Pair(408, "deadline_exceeded"), Pair(404, "not_found"),
               Pair(409, "already_exists"), Pair(403, "permission_denied"),
               Pair(403, "resource_exhausted"), Pair(412, "failed_precondition"),
               Pair(409, "aborted"), Pair(400, "out_of_range"), Pair(501, "unimplemented"),
               Pair(500, "internal"), Pair(503, "service_unavailable"),
               Pair(500, "data_loss"), Pair(401, "unauthenticated") >>
    IN  \A p \in OneCaller :
            Returned(p, "GRPC") =>
                /\ err[p] = Nil => ret[p] = Nil
                /\ err[p].typ = "*rpcError" =>
                       LET in == heap[err[p].ptr] IN
                         /\ in.typ = "rpcError"
                         /\ in.code = 0 => ret[p] = Nil
                         /\ in.code \in 1..16 =>
                                /\ IsStructured(ret[p])
                                /\ ret[p].ptr \notin SingletonAddrs
                                /\ heap[ret[p].ptr] =
                                       ErrorObj(Documented[in.code].status,
                                                Documented[in.code].code, in.desc)
                         /\ in.code > 16 => ret[p] = err[p]

\* C7 witness: GRPC has returned 503 service_unavailable for an Unavailable error
\* described as "a"
C7_Witness ==
    \E p \in OneCaller :
        /\ Returned(p, "GRPC")
        /\ err[p].typ = "*rpcError"
        /\ heap[err[p].ptr].code = 14 /\ heap[err[p].ptr].desc = "a"
        /\ IsStructured(ret[p])
        /\ heap[ret[p].ptr] = ErrorObj(503, "service_unavailable", "a")

\* C8 as stated: Merge(StructuredError{bad_request, 400, ""}, Conflict) yields a
\* StructuredError with the Conflict singleton's code and status (conflict / 409)
\* whose message is the description of the bad_request error, "bad_request: [400] ".
C8_SecondaryWins ==
    \A p \in OneCaller :
        ( /\ Returned(p, "Merge")
          /\ IsStructured(err[p])
          /\ heap[err[p].ptr] = ErrorObj(400, "bad_request", "")
          /\ other[p] = Conflict ) =>
            /\ IsStructured(ret[p])
            /\ heap[ret[p].ptr].Status = 409
            /\ heap[ret[p].ptr].Code = "conflict"
            /\ heap[ret[p].ptr].Message = "bad_request: [400] "

\* C8 amended: Merge(StructuredError{bad_request, 400, ""}, Conflict) yields a
\* StructuredError with the primary's code and status (bad_request / 400) whose
\* message is the description of the Conflict singleton, "conflict: [409] Conflict".
C8_PrimaryWins ==
    \A p \in OneCaller :
        ( /\ Returned(p, "Merge")
          /\ IsStructured(err[p])
          /\ heap[err[p].ptr] = ErrorObj(400, "bad_request", "")
          /\ other[p] = Conflict ) =>
            /\ IsStructured(ret[p])
            /\ ret[p] # err[p]
            /\ heap[ret[p].ptr].Status = 400
            /\ heap[ret[p].ptr].Code = "bad_request"
            /\ heap[ret[p].ptr].Message = "conflict: [409] Conflict"
            /\ heap[ret[p].ptr].Message = ErrorText(heap, Conflict)

\* C8 witness: Merge(emptyBadRequest, Conflict) has returned
C8_Witness ==
    \E p \in OneCaller :
        /\ Returned(p, "Merge")
        /\ err[p] = emptyBadRequest
        /\ heap[err[p].ptr] = ErrorObj(400, "bad_request", "")
        /\ other[p] = Conflict
        /\ IsStructured(ret[p])

\* C9: the constructors, the creator functions of New, NewWithStatus and
\* NewWithCode, Merge, the wrappers and GRPC are total: for every input, a nil
\* error and an interface holding a nil *Error pointer included, each call returns
\* and none panics.
C9_NeverPanics ==
    \A p \in OneCaller : pc[p] # "panic" /\ ret[p] # Panic

\* C10: folding non-nil errors e1..en as acc := Merge(acc, ei) from acc = nil: once
\* acc is a StructuredError its status and code stay the same in every later step,
\* the result is a StructuredError exactly when some ei is structured, and its
\* status and code are those of the first structured ei.
C10_FoldKeepsFirstStructured ==
    \A p \in OneCaller :
        Returned(p, "Fold") =>
            LET n == Len(seq[p])
                acc(i) == IF i < n THEN accs[p][i + 1] ELSE ret[p]
                structured == {i \in 1..n : IsStructured(seq[p][i])}
                first == CHOOSE i \in structured : \A j \in structured : i <= j
            IN  /\ \A i \in 0..n : \A j \in i..n :
                       IsStructured(acc(i)) =>
                           /\ IsStructured(acc(j))
                           /\ heap[acc(j).ptr].Status = heap[acc(i).ptr].Status
                           /\ heap[acc(j).ptr].Code = heap[acc(i).ptr].Code
                /\ IsStructured(ret[p]) <=> structured # {}
                /\ structured # {} =>
                       /\ heap[ret[p].ptr].Status = heap[seq[p][first].ptr].Status
                       /\ heap[ret[p].ptr].Code = heap[seq[p][first].ptr].Code
                /\ structured = {} => IsGeneric(ret[p])

\* C10 witness: a generic error, then Conflict, then BadRequest have been folded
\* and the result has Conflict's status and code
C10_Witness ==
    \E p \in OneCaller :
        /\ Returned(p, "Fold")
        /\ Len(seq[p]) = 3
        /\ IsGeneric(seq[p][1])
        /\ seq[p][2] = Conflict
        /\ seq[p][3] = BadRequest
        /\ IsStructured(accs[p][3])
        /\ heap[ret[p].ptr].Status = 409 /\ heap[ret[p].ptr].Code = "conflict"

\* C11 as stated: a StructuredError returned by Merge or by a <Status>With
\* wrapper, for any arguments including a nil one, is never the same object as a
\* catalog singleton, and a caller setting the Message of returned values leaves
\* every singleton with the fields it was initialised with.
C11_ResultNeverSingleton ==
    /\ \A p \in OneCaller :
           ((Returned(p, "Merge") \/ Returned(p, "With")) /\ IsStructured(ret[p])) =>
               ret[p].ptr \notin SingletonAddrs
    /\ \A a \in SingletonAddrs : heap[a] = InitialSingleton(a)

\* C11 amended: a StructuredError returned by Merge(err, other) or by a wrapper
\* when err and other are both non-nil is a fresh copy: it is neither argument and
\* no catalog singleton, and a caller setting its Message changes that copy alone,
\* no singleton and no other object a later call reads.  (With a nil argument Merge
\* returns the other argument itself, which may be a singleton.)
C11_NonNilResultIsFresh ==
    [][\A p \in OneCaller :
          ( /\ Returned(p, "Merge") \/ Returned(p, "With")
            /\ err[p] # Nil /\ other[p] # Nil
            /\ IsStructured(ret[p]) ) =>
              /\ ret[p].ptr \notin SingletonAddrs
              /\ ret[p] \notin {err[p], other[p]}
              /\ (pc'[p] = "done" /\ heap' # heap) =>
                     /\ heap'[ret[p].ptr].Message = arg'[p].message
                     /\ \A a \in Addrs \ {ret[p].ptr} : heap'[a] = heap[a]
                     /\ \A a \in SingletonAddrs : heap'[a] = heap[a]]_vars

\* C11 witness: the caller has set the Message of what Merge(BadRequest,
\* errors.New("a")) returned to "b", and the BadRequest singleton is as initialised
C11_Witness ==
    \E p \in OneCaller :
        /\ Returned(p, "Merge")
        /\ err[p] = BadRequest
        /\ IsGeneric(other[p]) /\ heap[other[p].ptr].s = "a"
        /\ IsStructured(ret[p])
        /\ arg[p].message = "b" /\ heap[ret[p].ptr].Message = "b"
        /\ heap[BadRequest.ptr] = InitialSingleton(BadRequest.ptr)

====
